---- MODULE Spec2Model ----
(***************************************************************************)
(* The fraction editor directive (fraction-editor.directive.ts) together   *)
(* with the FractionObjectFactory it delegates to.  A label is a sequence  *)
(* of one-character strings.  The directive is translated from its source; *)
(* FractionObjectFactory (fromDict, toString, fromRawInputString) is not   *)
(* part of the available sources and is modelled from its specification.   *)
(***************************************************************************)
EXTENDS Integers, Sequences, FiniteSets, TLC

VARIABLES
  value,            \* ctrl.value: the two-way bound value
  defaultFraction,  \* var defaultFraction (undefined when ctrl.value was null)
  label,            \* ctrl.localValue.label
  errorMessage,     \* var errorMessage
  pending,          \* the watch listener has not yet run for the initial label
  parsed,           \* arguments handed to the parser by the latest listener run
  prevError,        \* errorMessage as the latest listener run found it
  lastGood          \* the most recent label whose parse succeeded, if any

vars == <<value, defaultFraction, label, errorMessage, pending, parsed,
          prevError, lastGood>>

----------------------------------------------------------------------------
(* Bounds of the model.                                                    *)

MaxLabelLen == 2    \* every string up to this length is a possible edit
MaxRawLen == 6      \* longest raw input of the single-edit specification

----------------------------------------------------------------------------
(* Characters and strings.                                                 *)

Digits == {"0", "1", "2", "3", "4", "5", "6", "7", "8", "9"}

\* The characters JavaScript's \s and String.trim treat as whitespace,
\* restricted to the ones the model types.
Whitespace == {" ", "\t"}

DigitVal(c) ==
  CASE c = "0" -> 0 [] c = "1" -> 1 [] c = "2" -> 2 [] c = "3" -> 3
    [] c = "4" -> 4 [] c = "5" -> 5 [] c = "6" -> 6 [] c = "7" -> 7
    [] c = "8" -> 8 [] c = "9" -> 9

DigitChar(n) ==
  CASE n = 0 -> "0" [] n = 1 -> "1" [] n = 2 -> "2" [] n = 3 -> "3"
    [] n = 4 -> "4" [] n = 5 -> "5" [] n = 6 -> "6" [] n = 7 -> "7"
    [] n = 8 -> "8" [] n = 9 -> "9"

IsDigits(s) == Len(s) > 0 /\ \A i \in 1..Len(s) : s[i] \in Digits

RECURSIVE StrToNum(_)
StrToNum(s) ==
  IF s = <<>> THEN 0
  ELSE 10 * StrToNum(SubSeq(s, 1, Len(s) - 1)) + DigitVal(s[Len(s)])

RECURSIVE NumToStr(_)
NumToStr(n) ==
  IF n < 10 THEN <<DigitChar(n)>>
  ELSE NumToStr(n \div 10) \o <<DigitChar(n % 10)>>

RECURSIVE TrimLeft(_)
TrimLeft(s) ==
  IF s # <<>> /\ Head(s) \in Whitespace THEN TrimLeft(Tail(s)) ELSE s

RECURSIVE TrimRight(_)
TrimRight(s) ==
  IF s # <<>> /\ s[Len(s)] \in Whitespace
  THEN TrimRight(SubSeq(s, 1, Len(s) - 1)) ELSE s

Trim(s) == TrimRight(TrimLeft(s))

RECURSIVE SkipSpaces(_)
SkipSpaces(s) ==
  IF s # <<>> /\ Head(s) = " " THEN SkipSpaces(Tail(s)) ELSE s

\* Index of the first occurrence of c in s, 0 when there is none.
IndexOf(s, c) ==
  IF \E i \in 1..Len(s) : s[i] = c
  THEN CHOOSE i \in 1..Len(s) : s[i] = c /\ \A j \in 1..(i - 1) : s[j] # c
  ELSE 0

----------------------------------------------------------------------------
(* FractionObjectFactory.                                                  *)

\* The safe-range boundary of a parsed integer: the largest accepted value.
SafeMax == 10

NULL == [null |-> TRUE]
UNDEFINED == [undefined |-> TRUE]

INVALID_FORMAT == "InvalidFormat"
INVALID_DENOMINATOR == "InvalidDenominator"
NUMBER_TOO_LARGE == "NumberTooLarge"

ErrorMessage(kind) ==
  CASE kind = INVALID_FORMAT -> "Please enter a valid fraction (e.g., 5/3 or 1 2/3)"
    [] kind = INVALID_DENOMINATOR -> "Please do not put 0 in the denominator"
    [] kind = NUMBER_TOO_LARGE -> "Please enter a smaller number"

Fraction(isNegative, wholeNumber, numerator, denominator) ==
  [isNegative |-> isNegative, wholeNumber |-> wholeNumber,
   numerator |-> numerator, denominator |-> denominator]

\* fromStructured: every absent field takes its default; nothing is validated.
fromDict(dict) ==
  Fraction(
    IF "isNegative" \in DOMAIN dict THEN dict["isNegative"] ELSE FALSE,
    IF "wholeNumber" \in DOMAIN dict THEN dict["wholeNumber"] ELSE 0,
    IF "numerator" \in DOMAIN dict THEN dict["numerator"] ELSE 0,
    IF "denominator" \in DOMAIN dict THEN dict["denominator"] ELSE 1)

toString(f) ==
  LET sign == IF f.isNegative THEN <<"-">> ELSE <<>>
      frac == NumToStr(f.numerator) \o <<"/">> \o NumToStr(f.denominator)
  IN IF f.numerator = 0
     THEN (IF f.wholeNumber # 0 THEN sign ELSE <<>>) \o NumToStr(f.wholeNumber)
     ELSE IF f.wholeNumber = 0
     THEN sign \o frac
     ELSE sign \o NumToStr(f.wholeNumber) \o <<" ">> \o frac

Success(f) == [ok |-> TRUE, fraction |-> f]
Failure(kind) == [ok |-> FALSE, kind |-> kind, message |-> ErrorMessage(kind)]

\* The digit groups of an unsigned body: whole, numerator, denominator, an
\* absent group being the empty string; matched is FALSE when the body has
\* none of the three forms.
SplitForm(body) ==
  LET slash == IndexOf(body, "/")
      left == SubSeq(body, 1, slash - 1)
      right == SubSeq(body, slash + 1, Len(body))
      space == IndexOf(left, " ")
      whole == SubSeq(left, 1, space - 1)
      num == SkipSpaces(SubSeq(left, space, Len(left)))
      NoMatch == [matched |-> FALSE, hasFraction |-> FALSE,
                  whole |-> <<>>, num |-> <<>>, den |-> <<>>]
  IN IF slash = 0
     THEN IF IsDigits(body)
          THEN [matched |-> TRUE, hasFraction |-> FALSE,
                whole |-> body, num |-> <<>>, den |-> <<>>]
          ELSE NoMatch
     ELSE IF ~IsDigits(right) THEN NoMatch
     ELSE IF IsDigits(left)
          THEN [matched |-> TRUE, hasFraction |-> TRUE,
                whole |-> <<>>, num |-> left, den |-> right]
     ELSE IF space > 0 /\ IsDigits(whole) /\ IsDigits(num)
          THEN [matched |-> TRUE, hasFraction |-> TRUE,
                whole |-> whole, num |-> num, den |-> right]
     ELSE NoMatch

\* The parser without the check of a zero denominator.
fromRawInputString_noZeroCheck(rawInput) ==
  LET trimmed == Trim(rawInput)
      isNegative == trimmed # <<>> /\ Head(trimmed) = "-"
      body == IF isNegative THEN Tail(trimmed) ELSE trimmed
      form == SplitForm(body)
      wholeNumber == StrToNum(form.whole)
      numerator == StrToNum(form.num)
      denominator == IF form.hasFraction THEN StrToNum(form.den) ELSE 1
  IN IF ~form.matched THEN Failure(INVALID_FORMAT)
     ELSE IF wholeNumber > SafeMax \/ numerator > SafeMax \/ denominator > SafeMax
          THEN Failure(NUMBER_TOO_LARGE)
     ELSE Success(Fraction(isNegative, wholeNumber, numerator, denominator))

fromRawInputString(rawInput) ==
  LET trimmed == Trim(rawInput)
      isNegative == trimmed # <<>> /\ Head(trimmed) = "-"
      body == IF isNegative THEN Tail(trimmed) ELSE trimmed
      form == SplitForm(body)
      wholeNumber == StrToNum(form.whole)
      numerator == StrToNum(form.num)
      denominator == IF form.hasFraction THEN StrToNum(form.den) ELSE 1
  IN IF ~form.matched THEN Failure(INVALID_FORMAT)
     ELSE IF denominator = 0 THEN Failure(INVALID_DENOMINATOR)
     ELSE IF wholeNumber > SafeMax \/ numerator > SafeMax \/ denominator > SafeMax
          THEN Failure(NUMBER_TOO_LARGE)
     ELSE Success(Fraction(isNegative, wholeNumber, numerator, denominator))

----------------------------------------------------------------------------
(* The directive's controller.                                             *)

\* The pattern written /^\s*-*\s*$/: any number of minus signs.
INTERMEDIATE_REGEX_test_manyMinus(newValue) ==
  \A i \in 1..Len(newValue) : newValue[i] \in Whitespace \cup {"-"}

\* /^\s*-?\s*$/.test(newValue), matched left to right.
INTERMEDIATE_REGEX_test(newValue) ==
  LET afterSpace == TrimLeft(newValue)
      afterMinus == IF afterSpace # <<>> /\ Head(afterSpace) = "-"
                    THEN Tail(afterSpace) ELSE afterSpace
  IN TrimLeft(afterMinus) = <<>>

\* The constructor without the assignment to fractionString.
InitialLabel_neverRendered(boundValue) == <<"0">>

\* fractionString as the constructor leaves it.
InitialLabel(boundValue) ==
  IF boundValue # NULL THEN toString(fromDict(boundValue)) ELSE <<"0">>

\* The listener with errorMessage = '' inside the if: intermediate input
\* leaves the warning as it was.
Listener_keepsWarning(newValue, oldValue, oldError) ==
  IF ~INTERMEDIATE_REGEX_test(newValue)
  THEN LET result == fromRawInputString(newValue)
       IN IF result.ok
          THEN [value |-> result.fraction, errorMessage |-> "",
                calls |-> <<newValue>>]
          ELSE [value |-> oldValue, errorMessage |-> result.message,
                calls |-> <<newValue>>]
  ELSE [value |-> oldValue, errorMessage |-> oldError, calls |-> <<>>]

\* The listener whose catch block also resets ctrl.value to the zero fraction.
Listener_resetsOnFailure(newValue, oldValue, oldError) ==
  IF ~INTERMEDIATE_REGEX_test(newValue)
  THEN LET result == fromRawInputString(newValue)
       IN IF result.ok
          THEN [value |-> result.fraction, errorMessage |-> "",
                calls |-> <<newValue>>]
          ELSE [value |-> Fraction(FALSE, 0, 0, 1),
                errorMessage |-> result.message, calls |-> <<newValue>>]
  ELSE [value |-> oldValue, errorMessage |-> "", calls |-> <<>>]

\* The listener with the negation of the test left out: only intermediate
\* input reaches the parser.
Listener_testNotNegated(newValue, oldValue, oldError) ==
  IF INTERMEDIATE_REGEX_test(newValue)
  THEN LET result == fromRawInputString(newValue)
       IN IF result.ok
          THEN [value |-> result.fraction, errorMessage |-> "",
                calls |-> <<newValue>>]
          ELSE [value |-> oldValue, errorMessage |-> result.message,
                calls |-> <<newValue>>]
  ELSE [value |-> oldValue, errorMessage |-> "", calls |-> <<>>]

\* The listener whose catch block drops the message.
Listener_dropsMessage(newValue, oldValue, oldError) ==
  IF ~INTERMEDIATE_REGEX_test(newValue)
  THEN LET result == fromRawInputString(newValue)
       IN IF result.ok
          THEN [value |-> result.fraction, errorMessage |-> "",
                calls |-> <<newValue>>]
          ELSE [value |-> oldValue, errorMessage |-> "",
                calls |-> <<newValue>>]
  ELSE [value |-> oldValue, errorMessage |-> "", calls |-> <<>>]

\* One run of the watch listener on '$ctrl.localValue.label': what it leaves
\* in ctrl.value and errorMessage, and the arguments it gave the parser.
Listener(newValue, oldValue, oldError) ==
  IF ~INTERMEDIATE_REGEX_test(newValue)
  THEN LET result == fromRawInputString(newValue)
       IN IF result.ok
          THEN [value |-> result.fraction, errorMessage |-> "",
                calls |-> <<newValue>>]
          ELSE [value |-> oldValue, errorMessage |-> result.message,
                calls |-> <<newValue>>]
  ELSE [value |-> oldValue, errorMessage |-> "", calls |-> <<>>]

WatchListener(newValue) ==
  LET run == Listener(newValue, value, errorMessage)
  IN /\ value' = run.value
     /\ errorMessage' = run.errorMessage
     /\ parsed' = run.calls
     /\ prevError' = errorMessage
     /\ lastGood' = IF fromRawInputString(newValue).ok
                    THEN <<newValue>> ELSE lastGood

\* ctrl.getWarningText().
getWarningText == errorMessage

----------------------------------------------------------------------------
(* Inputs.                                                                 *)

Strings(alphabet, maxLen) == UNION {[1..n -> alphabet] : n \in 0..maxLen}

EditAlphabet == {"1", " ", "-", "/"}
RawAlphabet == {"0", "1", " ", "\t", "-", "/", "+"}

\* Longer edits of interest: each form, each error, near-intermediate input.
SampleLabels ==
  { <<"0">>, <<"1", "/", "0">>, <<"1", "/", "1">>, <<"-", "1", "/", "1">>,
    <<"1", " ", "1", "/", "1">>, <<"-", "1", " ", "0", "/", "1">>,
    <<"1", "0">>, <<"1", "1">>, <<"1", "/", "1", "1">>,
    <<"-", " ", "1">>, <<" ", "-", " ">>, <<"\t", "-", "\t">>,
    <<"+", "1">>, <<"a", "b", "c">>, <<"1", "/">>, <<"1", " ", "/", "1">> }

Labels == Strings(EditAlphabet, MaxLabelLen) \cup SampleLabels
RawInputs == Strings(RawAlphabet, MaxRawLen)

FieldNames == {"isNegative", "wholeNumber", "numerator", "denominator"}

\* The structured values a host may bind: validated fields, any of them absent.
Dicts(maxField) ==
  { [k \in S |-> r[k]] :
      r \in [isNegative : BOOLEAN, wholeNumber : 0..maxField,
             numerator : 0..maxField, denominator : 1..maxField],
      S \in SUBSET FieldNames }

----------------------------------------------------------------------------
(* The state machine.                                                      *)

\* The controller's constructor, for the bound value boundValue.
Construct(boundValue) ==
  /\ value = boundValue
  /\ defaultFraction = IF boundValue # NULL THEN fromDict(boundValue) ELSE UNDEFINED
  /\ label = InitialLabel(boundValue)
  /\ errorMessage = ""
  /\ pending = TRUE
  /\ parsed = <<>>
  /\ prevError = ""
  /\ lastGood = <<>>

\* Bound values of the editing specification: complete, partial and empty.
SampleValues ==
  { NULL,
    [isNegative |-> TRUE, wholeNumber |-> 1, numerator |-> 1, denominator |-> 2],
    [isNegative |-> FALSE, wholeNumber |-> 0, numerator |-> 0, denominator |-> 1],
    [numerator |-> 3, denominator |-> 6],
    [isNegative |-> TRUE, wholeNumber |-> 2] }

Init == \E v \in SampleValues : Construct(v)

\* The first digest: the listener runs on the initial label.
WatchInit ==
  /\ pending
  /\ pending' = FALSE
  /\ WatchListener(label)
  /\ UNCHANGED <<label, defaultFraction>>

\* The user edits the input; the digest that follows runs the listener.
LabelChange(s) ==
  /\ ~pending
  /\ s # label
  /\ label' = s
  /\ WatchListener(s)
  /\ UNCHANGED <<pending, defaultFraction>>

Next == WatchInit \/ \E s \in Labels : LabelChange(s)

Spec == Init /\ [][Next]_vars

\* One edit of an editor created without a value, over every raw input.
InitNull == Construct(NULL)

FirstEdit == label = InitialLabel(NULL) /\ \E s \in RawInputs : LabelChange(s)

NextParse == WatchInit \/ FirstEdit

SpecParse == InitNull /\ [][NextParse]_vars

\* Creation alone, over every bound value in the safe range.
InitRange == \E v \in Dicts(SafeMax) \cup {NULL} : Construct(v)

NextCreate == WatchInit

SpecCreate == InitRange /\ [][NextCreate]_vars

----------------------------------------------------------------------------
(* What the claims speak of, stated apart from the code above.             *)

\* Optional whitespace, at most one '-', optional whitespace.
IsIntermediate(s) ==
  \E i \in 0..Len(s) :
    /\ \A k \in 1..i : s[k] \in Whitespace
    /\ \/ \A k \in (i + 1)..Len(s) : s[k] \in Whitespace
       \/ /\ i < Len(s)
          /\ s[i + 1] = "-"
          /\ \A k \in (i + 2)..Len(s) : s[k] \in Whitespace

Slice(s, a, b) == [i \in 1..(b - a + 1) |-> s[a + i - 1]]

AllDigits(s, a, b) == a <= b /\ \A k \in a..b : s[k] \in Digits

\* The decompositions of s as: whitespace, ['-'], [digits, spaces], [digits,
\* '/'], digits, whitespace.  Each is <<isNegative, whole, num, den>>, a
\* part that the form lacks being the empty string.
Readings(s) ==
  LET n == Len(s)
      Cores == { c \in (1..n) \X (1..n) :
                   /\ c[1] <= c[2]
                   /\ \A k \in 1..(c[1] - 1) : s[k] \in Whitespace
                   /\ \A k \in (c[2] + 1)..n : s[k] \in Whitespace
                   /\ s[c[1]] \notin Whitespace
                   /\ s[c[2]] \notin Whitespace }
      Of(c) ==
        LET neg == s[c[1]] = "-"
            a == IF neg THEN c[1] + 1 ELSE c[1]
            b == c[2]
            integer == IF AllDigits(s, a, b)
                       THEN {<<neg, Slice(s, a, b), <<>>, <<>> >>} ELSE {}
            slashes == { k \in a..b : s[k] = "/" /\ AllDigits(s, k + 1, b) }
            simple == { <<neg, <<>>, Slice(s, a, k - 1), Slice(s, k + 1, b)>> :
                          k \in { k \in slashes : AllDigits(s, a, k - 1) } }
            mixed == { <<neg, Slice(s, a, t[1]), Slice(s, t[2], t[3] - 1),
                         Slice(s, t[3] + 1, b)>> :
                         t \in { t \in (a..b) \X (a..b) \X slashes :
                                   /\ t[1] + 1 < t[2]
                                   /\ t[2] < t[3]
                                   /\ AllDigits(s, a, t[1])
                                   /\ \A k \in (t[1] + 1)..(t[2] - 1) : s[k] = " "
                                   /\ AllDigits(s, t[2], t[3] - 1) } }
        IN integer \cup simple \cup mixed
  IN UNION { Of(c) : c \in Cores }

\* The value of a digit string, most significant digit first.
Decimal(ds) ==
  LET Weight[k \in 0..Len(ds)] == IF k = 0 THEN 1 ELSE 10 * Weight[k - 1]
      Sum[k \in 0..Len(ds)] ==
        IF k = 0 THEN 0
        ELSE Sum[k - 1] + DigitVal(ds[Len(ds) - k + 1]) * Weight[k - 1]
  IN Sum[Len(ds)]

\* The outcomes the claim allows for the raw input s.
OutcomesOf(r) ==
  LET w == Decimal(r[2])
      n == Decimal(r[3])
      d == IF r[4] = <<>> THEN 1 ELSE Decimal(r[4])
      tooLarge == w > SafeMax \/ n > SafeMax \/ d > SafeMax
  IN IF d = 0 /\ tooLarge
     THEN {Failure(INVALID_DENOMINATOR), Failure(NUMBER_TOO_LARGE)}
     ELSE IF d = 0 THEN {Failure(INVALID_DENOMINATOR)}
     ELSE IF tooLarge THEN {Failure(NUMBER_TOO_LARGE)}
     ELSE {Success(Fraction(r[1], w, n, d))}

Allowed(s) ==
  IF Readings(s) = {}
  THEN {Failure(INVALID_FORMAT)}
  ELSE UNION { OutcomesOf(r) : r \in Readings(s) }

Fails(s) == \A r \in Allowed(s) : ~r.ok

WellFormed(f) ==
  /\ DOMAIN f = FieldNames
  /\ f.denominator > 0
  /\ f.numerator >= 0
  /\ f.wholeNumber >= 0

ZeroFraction == Fraction(FALSE, 0, 0, 1)

\* The listener has run on the label shown.
Handled == ~pending

\* The editor was created with a value and the listener has run.
Created == Handled /\ defaultFraction # UNDEFINED

----------------------------------------------------------------------------
(* C1: when the label changes to an intermediate string, getWarningText()  *)
(* returns the same text after the listener as before it.                  *)
C1_IntermediateKeepsWarning ==
  (Handled /\ IsIntermediate(label)) => getWarningText = prevError

(* C1, amended: when the label changes to an intermediate string the       *)
(* listener produces no warning and clears the one there was:              *)
(* getWarningText() returns the empty string afterwards, and the parser    *)
(* is not called.                                                          *)
C1_IntermediateClearsWarning ==
  (Handled /\ IsIntermediate(label)) => (getWarningText = "" /\ parsed = <<>>)

C1_Witness ==
  Handled /\ label = <<"-">> /\ prevError # "" /\ getWarningText = ""

(* C2: a label is intermediate exactly when it is optional whitespace, at  *)
(* most one '-', optional whitespace: for such a label the listener does   *)
(* not call the parser and leaves ctrl.value unchanged, for every other    *)
(* label it calls the parser exactly once, with that label.                *)
C2_IntermediateExactly ==
  [][ /\ IsIntermediate(label') => (parsed' = <<>> /\ value' = value)
      /\ ~IsIntermediate(label') => parsed' = <<label'>> ]_vars

C2_Witness ==
  Handled /\ label = <<"-", "-">> /\ parsed = <<label>>

(* C3: when the label changes to a non-intermediate string whose parse     *)
(* fails, getWarningText() afterwards is the message of that error and     *)
(* ctrl.value is unchanged.                                                *)
C3_FailureShowsMessageKeepsValue ==
  [][ (~IsIntermediate(label') /\ Fails(label'))
      => /\ \E r \in Allowed(label') : getWarningText' = r.message
         /\ value' = value ]_vars

C3_Witness ==
  /\ Handled
  /\ label = <<"1", "/", "0">>
  /\ getWarningText = ErrorMessage(INVALID_DENOMINATOR)
  /\ lastGood = << <<"1", "/", "1">> >>
  /\ value = Fraction(FALSE, 0, 1, 1)

(* C4: the parser is called at most once per label change; ctrl.value is   *)
(* the parse result of the most recent label that parsed successfully;     *)
(* after a successful parse getWarningText() is the empty string.          *)
C4_LatestSuccessWins ==
  /\ Len(parsed) <= 1
  /\ lastGood # <<>> => Success(value) \in Allowed(lastGood[1])
  /\ (Handled /\ lastGood = <<label>>) => getWarningText = ""

C4_Witness ==
  /\ Handled
  /\ lastGood = << <<"-", "1", "/", "1">> >>
  /\ label = <<"a", "b", "c">>
  /\ prevError # ""
  /\ value = Fraction(TRUE, 0, 1, 1)

(* C5: for a bound fraction f with numerator 0, parse(toString(f))         *)
(* succeeds with the fields of f, isNegative alone being allowed to differ *)
(* when wholeNumber is 0.                                                  *)
C5_WholeRoundTrip ==
  (Created /\ defaultFraction.numerator = 0)
  => /\ parsed = <<label>>
     /\ getWarningText = ""
     /\ value.wholeNumber = defaultFraction.wholeNumber
     /\ value.numerator = defaultFraction.numerator
     /\ value.denominator = defaultFraction.denominator
     /\ defaultFraction.wholeNumber # 0
          => value.isNegative = defaultFraction.isNegative

(* C5, amended: for a bound fraction f with numerator 0, parse(toString(f)) *)
(* succeeds with the wholeNumber and numerator of f and denominator 1      *)
(* whatever the denominator of f, isNegative being that of f when          *)
(* wholeNumber is not 0.                                                   *)
C5_WholeRoundTripDenominatorOne ==
  (Created /\ defaultFraction.numerator = 0)
  => /\ parsed = <<label>>
     /\ getWarningText = ""
     /\ value.wholeNumber = defaultFraction.wholeNumber
     /\ value.numerator = defaultFraction.numerator
     /\ value.denominator = 1
     /\ defaultFraction.wholeNumber # 0
          => value.isNegative = defaultFraction.isNegative

C5_Witness ==
  /\ Created
  /\ defaultFraction = Fraction(TRUE, 7, 0, 3)
  /\ value = Fraction(TRUE, 7, 0, 1)

(* C6: for a bound fraction f with numerator other than 0,                 *)
(* parse(toString(f)) succeeds and equals f field by field.                *)
C6_FractionRoundTrip ==
  (Created /\ defaultFraction.numerator # 0)
  => /\ parsed = <<label>>
     /\ getWarningText = ""
     /\ value = defaultFraction

C6_Witness ==
  /\ Created
  /\ defaultFraction = Fraction(TRUE, 3, 4, 2)
  /\ value = defaultFraction
  /\ label = <<"-", "3", " ", "4", "/", "2">>

C8_ParseOutcome ==
  Handled =>
    LET allowed == Allowed(label)
    IN /\ Cardinality(allowed) = 1 \/ \A r \in allowed : ~r.ok
       /\ fromRawInputString(label) \in allowed
       /\ parsed # <<>> =>
            \/ Success(value) \in allowed /\ getWarningText = ""
            \/ \E r \in allowed : ~r.ok /\ getWarningText = r.message

C8_Witness ==
  /\ Handled
  /\ label = <<"1", " ", "1", "/", "1", "1">>
  /\ getWarningText = ErrorMessage(NUMBER_TOO_LARGE)
  /\ value = ZeroFraction

(* C9: toString renders wholeNumber alone when numerator is 0, with '-'    *)
(* only for a negative non-zero value; numerator/denominator when          *)
(* wholeNumber is 0; otherwise wholeNumber, one space, numerator/          *)
(* denominator; the fields are rendered as stored.                         *)
C9_ToStringMirrorsFields ==
  defaultFraction # UNDEFINED =>
    LET f == defaultFraction
        minus == IF f.isNegative THEN 1 ELSE 0
        w == NumToStr(f.wholeNumber)
        n == NumToStr(f.numerator)
        d == NumToStr(f.denominator)
    IN /\ label # <<"-", "0">>
       /\ f.numerator = 0 =>
            label = (IF f.isNegative /\ f.wholeNumber # 0 THEN <<"-">> ELSE <<>>) \o w
       /\ (f.numerator # 0 /\ f.wholeNumber = 0) =>
            /\ Len(label) = minus + Len(n) + 1 + Len(d)
            /\ (f.isNegative <=> label[1] = "-")
            /\ SubSeq(label, minus + 1, Len(label)) = n \o <<"/">> \o d
       /\ (f.numerator # 0 /\ f.wholeNumber # 0) =>
            /\ (f.isNegative <=> label[1] = "-")
            /\ SubSeq(label, minus + 1, Len(label)) = w \o <<" ">> \o n \o <<"/">> \o d

C9_Witness ==
  /\ pending
  /\ defaultFraction = Fraction(TRUE, 0, 0, 4)
  /\ label = <<"0">>

(* C10: the first run of the listener leaves ctrl.value equal to the bound *)
(* value as constructed, with no warning; an editor created with null      *)
(* shows '0' and then holds the zero fraction.                             *)
C10_InitKeepsValue ==
  /\ (Handled /\ defaultFraction # UNDEFINED)
       => (value = defaultFraction /\ getWarningText = "")
  /\ defaultFraction = UNDEFINED => label = <<"0">>
  /\ (Handled /\ defaultFraction = UNDEFINED) => value = ZeroFraction

(* C10, amended: the first run of the listener leaves ctrl.value equal to  *)
(* the bound value as constructed, except that for numerator 0 the         *)
(* denominator becomes 1 and a negative zero becomes positive; there is no *)
(* warning; an editor created with null shows '0' and then holds the zero  *)
(* fraction.                                                               *)
C10_InitKeepsValueUpToRendering ==
  /\ (Handled /\ defaultFraction # UNDEFINED)
       => /\ getWarningText = ""
          /\ value = IF defaultFraction.numerator # 0 THEN defaultFraction
                     ELSE Fraction(
                            defaultFraction.isNegative /\ defaultFraction.wholeNumber # 0,
                            defaultFraction.wholeNumber, 0, 1)
  /\ defaultFraction = UNDEFINED => label = <<"0">>
  /\ (Handled /\ defaultFraction = UNDEFINED) => value = ZeroFraction

C10_Witness ==
  /\ Handled
  /\ defaultFraction = Fraction(TRUE, 0, 0, 5)
  /\ value = ZeroFraction
  /\ getWarningText = ""

====
